---- MODULE Spec2Model ----
(***************************************************************************)
(* A model of photoscanner's duplicate detection and resolution:           *)
(*   - scanner.scan_folders and the three grouping functions of scanner,   *)
(*   - db.PhotoDB (the images table, as far as the dialog uses it),        *)
(*   - utils.merge_image_metadata,                                         *)
(*   - gui.resolve_dialog.ResolveDuplicatesDialog (the event handlers).    *)
(*                                                                         *)
(* Specifications:                                                         *)
(*   Spec        the resolve dialog: load, click, criteria, navigate,      *)
(*               delete (step by step), ignore                             *)
(*   SpecSelect  the auto-select handlers over one group whose files'      *)
(*               stat values are drawn from bounded sets                   *)
(*   SpecSha     group_duplicates_by_sha256 over bounded record lists      *)
(*   SpecMerge   merge_image_metadata over bounded metadata                *)
(*   SpecScan    scan_folders with the window's pause and resume           *)
(*   SpecPhash   group_duplicates_by_phash over bounded record lists       *)
(*   SpecPhashLoop  the same function, one pass of its loop per step       *)
(*   SpecEmbed   group_duplicates_by_embedding over bounded record lists   *)
(*   SpecCluster both of them, for the order of the clusters               *)
(*   SpecHamming hamming_distance_hex_phash over bounded hex strings       *)
(*   SpecBoth    sha256 and phash grouping of the same records             *)
(*   SpecStore   the calls on the images table                             *)
(*   SpecWindows a scan with the windows that pause and resume it          *)
(***************************************************************************)
EXTENDS Integers, Sequences, FiniteSets, TLC

VARIABLES
    disk,                 \* the file system: path -> file (exists, pixel size, stat, metadata)
    store,                \* committed rows of the images table (set of records, one per path)
    txn,                  \* paths whose row the open connection has deleted, not yet committed
    dynamic_mode,         \* ResolveDuplicatesDialog._dynamic_mode
    groups,               \* ResolveDuplicatesDialog._groups (list of lists of paths)
    current_index,        \* ResolveDuplicatesDialog._current_index (0-based)
    current_group_cache,  \* ResolveDuplicatesDialog._current_group_cache
    selected_path,        \* ResolveDuplicatesDialog._selected_path (None or a path)
    btn_delete,           \* _btn_delete.isEnabled()
    btn_ignore,           \* _btn_ignore.isEnabled()
    chk,                  \* the three criteria check boxes
    pc,                   \* position inside _on_delete: idle, merge, loop
    sel_keep,             \* _on_delete: the keep path the running request was started with
    to_delete,            \* _on_delete: the candidates requested for deletion
    remaining,            \* _on_delete: the candidates the loop has not handled yet
    deleted_count,        \* _on_delete: deleted_count
    errors,               \* _on_delete: paths whose removal raised (shown in "Delete Errors")
    merge_state,          \* history: merge_image_metadata was called for the request: no, done
    merge_fault,          \* history: what went wrong inside that call (MergeFaults)
    merge_printed,        \* "Failed to merge metadata: ..." was printed for the request
    last,                 \* history: the handler (or handler step) that ran last
    records,              \* input of the grouping functions (list of ImageRecord)
    result,               \* output of the grouping function
    m_target,             \* merge_image_metadata: the target's metadata file
    m_sources,            \* merge_image_metadata: the sources' metadata files
    m_out,                \* merge_image_metadata: outcome (target afterwards, warning)
    threshold,            \* the threshold argument of the phash and embedding grouping
    nfiles,               \* scan_folders: how many files iter_image_files yields
    enrich,               \* scan_folders: an embedding model or detector is in use
    running_event,        \* the threading.Event shared by window and worker: is set
    scan_pc,              \* scan_folders: next, wait, file, end, done, failed
    scanned,              \* scan_folders: scanned
    indexed,              \* scan_folders: indexed
    skipped,              \* scan_folders: skipped
    upserts,              \* rows upserted by the scan's connection
    uncommitted,          \* rows upserted and not yet committed
    callbacks,            \* history: progress callbacks for the file being processed
    paused_callbacks,     \* history: progress callbacks since the gate was last cleared
    inflight_at_clear,    \* history: a file was being processed when the gate was cleared
    label_windows,        \* Label Images windows that are open
    resolve_open          \* the Resolve dialog opened by _on_resolve_all is open

vars == <<disk, store, txn, dynamic_mode, groups, current_index,
          current_group_cache, selected_path, btn_delete, btn_ignore, chk,
          pc, sel_keep, to_delete, remaining, deleted_count, errors,
          merge_state, merge_fault, merge_printed, last, records, result,
          m_target, m_sources, m_out, threshold, nfiles, enrich, running_event,
          scan_pc, scanned, indexed, skipped, upserts, uncommitted, callbacks,
          paused_callbacks, inflight_at_clear, label_windows, resolve_open>>

dialogVars == <<disk, store, txn, dynamic_mode, groups, current_index,
                current_group_cache, selected_path, btn_delete, btn_ignore, chk,
                pc, sel_keep, to_delete, remaining, deleted_count, errors,
                merge_state, merge_fault, merge_printed>>
groupVars == <<records, result, threshold>>
windowVars == <<label_windows, resolve_open>>
scanVars == <<nfiles, enrich, running_event, scan_pc, scanned, indexed, skipped,
              upserts, uncommitted, callbacks, paused_callbacks, inflight_at_clear,
              label_windows, resolve_open>>
mergeVars == <<m_target, m_sources, m_out>>

(***************************************************************************)
(* Values                                                                  *)
(***************************************************************************)
None == "None"

\* Paths in ascending string order (SQLite's BINARY collation, Python's str <).
PathOrder == <<"/a/1.jpg", "/a/2.jpg", "/a/b/3.jpg", "/c/4.jpg", "/c/5.jpg">>
Paths == {PathOrder[i] : i \in 1..Len(PathOrder)}
PathRank(p) == CHOOSE i \in 1..Len(PathOrder) : PathOrder[i] = p

\* pathlib.Path(p).parts
PathParts(p) ==
    CASE p = "/a/1.jpg"   -> <<"/", "a", "1.jpg">>
      [] p = "/a/2.jpg"   -> <<"/", "a", "2.jpg">>
      [] p = "/a/b/3.jpg" -> <<"/", "a", "b", "3.jpg">>
      [] p = "/c/4.jpg"   -> <<"/", "c", "4.jpg">>
      [] p = "/c/5.jpg"   -> <<"/", "c", "5.jpg">>

Range(s) == {s[i] : i \in 1..Len(s)}
Abs(x) == IF x < 0 THEN -x ELSE x
SetMax(S) == CHOOSE x \in S : \A y \in S : y <= x
SetMin(S) == CHOOSE x \in S : \A y \in S : x <= y

(***************************************************************************)
(* Bounds                                                                  *)
(***************************************************************************)
MaxRecs == 4          \* longest record list handed to a grouping function
MaxSources == 2       \* longest source list handed to merge_image_metadata
MaxMissing == 1       \* most files of the store that are absent from disk when the dialog opens
MaxMtimeSteps == 2    \* modification times are 0..MaxMtimeSteps half tolerances
MaxFiles == 102       \* most files a scan finds
MaxTablePaths == 3    \* paths that the calls on the images table of SpecStore use
MaxLabelWindows == 2  \* most Label Images windows open at a time
MaxHexLen == 2        \* most digits of a hex string handed to hamming_distance_hex_phash
Shas == {1, 2}        \* content hashes (compared with = and <, as the hex digests are)
Scores == {1, 2}      \* quality scores

(***************************************************************************)
(* Python's list.sort / sorted: a stable sort.  lt[i, j] says that the key *)
(* of s[i] is strictly smaller than that of s[j], so that s[i] has to come *)
(* before s[j].                                                            *)
(***************************************************************************)
StableSort(s, lt) ==
    LET n == Len(s)
        \* the elements that end up before s[i]: those with a smaller key, and
        \* those with an equal key that stood before it
        pos(i) == 1 + Cardinality({j \in 1..n : j # i /\
                       (lt[j, i] \/ (~lt[i, j] /\ j < i))})
    IN  [k \in 1..n |-> s[CHOOSE i \in 1..n : pos(i) = k]]

(***************************************************************************)
(* scanner.group_duplicates_by_sha256                                      *)
(***************************************************************************)
ImageRecord == [path : Paths, sha256 : Shas, score : Scores]

\* The keys of by_sha in insertion order: each hash at its first occurrence.
RECURSIVE ShaKeys(_)
ShaKeys(recs) ==
    IF recs = <<>> THEN <<>>
    ELSE LET before == ShaKeys(SubSeq(recs, 1, Len(recs) - 1))
             h == recs[Len(recs)].sha256
         IN  IF h \in Range(before) THEN before ELSE Append(before, h)

\* by_sha[h]: the records of hash h in input order.
BySha(recs, h) == SelectSeq(recs, LAMBDA r : r.sha256 = h)

ScoreDesc(a, b) == a.score > b.score

\* sorted(v, key=lambda x: x.score, reverse=True)
SortByScoreDesc(v) ==
    StableSort(v, [i \in 1..Len(v), j \in 1..Len(v) |-> ScoreDesc(v[i], v[j])])

\* key=lambda g: (-len(g), g[0].sha256)
GroupKeyLt(g1, g2) ==
    \/ Len(g1) > Len(g2)
    \/ Len(g1) = Len(g2) /\ g1[1].sha256 < g2[1].sha256

\* The minimum group size: "if len(v) > 1".
IsDuplicateListOffByOne(v) == Len(v) >= 1
IsDuplicateList(v) == Len(v) > 1

group_duplicates_by_sha256(recs) ==
    LET keys == ShaKeys(recs)
        lists == [i \in 1..Len(keys) |-> BySha(recs, keys[i])]
        kept == SelectSeq(lists, IsDuplicateList)
        sortedGroups == [i \in 1..Len(kept) |-> SortByScoreDesc(kept[i])]
    IN  StableSort(sortedGroups,
                   [i \in 1..Len(kept), j \in 1..Len(kept) |->
                       GroupKeyLt(sortedGroups[i], sortedGroups[j])])

(***************************************************************************)
(* SpecSha: group_duplicates_by_sha256 applied to every record list of at  *)
(* most MaxRecs records with pairwise different paths.                     *)
(***************************************************************************)
RecordLists(k) ==
    {s \in [1..k -> ImageRecord] : \A i, j \in 1..k : i # j => s[i].path # s[j].path}

(***************************************************************************)
(* scanner.hamming_distance_hex_phash and scanner.group_duplicates_by_phash*)
(***************************************************************************)
\* A perceptual hash is a hex string, written as the sequence of its digits.
Phashes == {<<0, 0>>, <<0, 1>>, <<1, 0>>, <<1, 1>>}
PhashThresholds == {0, 1, 2}

\* int(a, 16)
RECURSIVE HexToInt(_)
HexToInt(h) ==
    IF h = <<>> THEN 0
    ELSE 16 * HexToInt(SubSeq(h, 1, Len(h) - 1)) + h[Len(h)]

\* The digits the hex strings of SpecHamming are written with.
HexDigits == {0, 1, 2, 7, 8, 15}
HexStrings == UNION {[1..k -> HexDigits] : k \in 1..MaxHexLen}

XorBitCountLastDigit(x, y) ==
    Cardinality({k \in 0..3 : (x \div 2^k) % 2 # (y \div 2^k) % 2})

\* bin(x ^ y).count("1")
RECURSIVE XorBitCount(_, _)
XorBitCount(x, y) ==
    IF x = 0 /\ y = 0 THEN 0
    ELSE (IF x % 2 # y % 2 THEN 1 ELSE 0) + XorBitCount(x \div 2, y \div 2)

hamming_distance_hex_phash(a, b) == XorBitCount(HexToInt(a), HexToInt(b))

\* remaining.pop(): the index of the record that becomes the seed.
PopFirst(rem) == 1
PopIndex(rem) == Len(rem)

ClusterKeyLtSizeOnly(g1, g2) == Len(g1) > Len(g2)

\* key=lambda g: (-len(g), -g[0].score)
ClusterKeyLt(g1, g2) ==
    \/ Len(g1) > Len(g2)
    \/ Len(g1) = Len(g2) /\ g1[1].score > g2[1].score

\* groups.sort(key=lambda g: (-len(g), -g[0].score))
SortClusters(gs) ==
    StableSort(gs, [i \in 1..Len(gs), j \in 1..Len(gs) |-> ClusterKeyLt(gs[i], gs[j])])

\* The while loop: the clusters in the order in which they are appended.
RECURSIVE PhashClusters(_, _)
PhashClusters(rem, thr) ==
    IF rem = <<>> THEN <<>>
    ELSE LET k == PopIndex(rem)
             seed == rem[k]
             rest == [i \in 1..(Len(rem) - 1) |->
                         IF i < k THEN rem[i] ELSE rem[i + 1]]
             near(r) == hamming_distance_hex_phash(seed.phash, r.phash) <= thr
             cluster == <<seed>> \o SelectSeq(rest, near)
             keep == SelectSeq(rest, LAMBDA r : ~near(r))
         IN  (IF Len(cluster) > 1 THEN <<SortByScoreDesc(cluster)>> ELSE <<>>)
                 \o PhashClusters(keep, thr)

group_duplicates_by_phash(recs, thr) == SortClusters(PhashClusters(recs, thr))

phash_pass_keeps_near(rem, thr) ==
    LET k == PopIndex(rem)
        seed == rem[k]
        rest == [i \in 1..(Len(rem) - 1) |-> IF i < k THEN rem[i] ELSE rem[i + 1]]
        near(r) == hamming_distance_hex_phash(seed.phash, r.phash) <= thr
    IN  [cluster |-> <<seed>> \o SelectSeq(rest, near), keep |-> rest]

\* One pass of "while remaining": the cluster formed around the seed, and the
\* records that stay in remaining.
phash_pass(rem, thr) ==
    LET k == PopIndex(rem)
        seed == rem[k]
        rest == [i \in 1..(Len(rem) - 1) |-> IF i < k THEN rem[i] ELSE rem[i + 1]]
        near(r) == hamming_distance_hex_phash(seed.phash, r.phash) <= thr
    IN  [cluster |-> <<seed>> \o SelectSeq(rest, near),
         keep |-> SelectSeq(rest, LAMBDA r : ~near(r))]

\* The record lists handed to it: at most MaxRecs records, in the order of
\* PhotoDB.iter_images (ascending path).
PhashList(f) ==
    [i \in DOMAIN f |-> [path |-> PathOrder[i], phash |-> f[i].phash, score |-> f[i].score]]

(***************************************************************************)
(* scanner.group_duplicates_by_embedding                                   *)
(***************************************************************************)
\* Unit vectors in fifths, so that a dot product is a similarity in units of
\* 1/25; the embedding of a record is such a vector, or NoEmbedding for None.
Vectors == {<<5, 0>>, <<4, 3>>, <<3, 4>>}
NoEmbedding == <<>>
SimThresholds == {20, 24}

\* One entry of np.dot(vectors, vectors.T)
Dot(u, v) == u[1] * v[1] + u[2] * v[2]

\* "if sim_matrix[i, j] >= threshold"
SimilarStrict(u, v, thr) == Dot(u, v) > thr
Similar(u, v, thr) == Dot(u, v) >= thr

HasEmbedding(r) == r.embedding # NoEmbedding

\* The loop over i from index i on; visited is the set of indices already
\* put into a cluster.
RECURSIVE EmbeddingClusters(_, _, _, _)
EmbeddingClusters(valid, i, visited, thr) ==
    IF i > Len(valid) THEN <<>>
    ELSE IF i \in visited THEN EmbeddingClusters(valid, i + 1, visited, thr)
    ELSE LET js == {j \in (i + 1)..Len(valid) :
                       j \notin visited /\ Similar(valid[i].embedding, valid[j].embedding, thr)}
             idx == {i} \cup js
             members == SelectSeq([k \in 1..Len(valid) |-> k], LAMBDA k : k \in idx)
             cluster == [n \in 1..Len(members) |-> valid[members[n]]]
         IN  (IF Len(cluster) > 1 THEN <<SortByScoreDesc(cluster)>> ELSE <<>>)
                 \o EmbeddingClusters(valid, i + 1, visited \cup idx, thr)

group_duplicates_by_embedding(recs, thr) ==
    LET valid_records == SelectSeq(recs, HasEmbedding)
    IN  IF valid_records = <<>> THEN <<>>
        ELSE SortClusters(EmbeddingClusters(valid_records, 1, {}, thr))

EmbeddedList(f) ==
    [i \in DOMAIN f |-> [path |-> PathOrder[i], embedding |-> f[i].embedding,
                         score |-> f[i].score]]

(***************************************************************************)
(* db.PhotoDB: the images table as its list of rows, and the calls on it   *)
(***************************************************************************)
TablePaths == {PathOrder[i] : i \in 1..MaxTablePaths}
StoreRecord == [path : TablePaths, sha256 : Shas, score : Scores]

RowsOf(rows, p) == SelectSeq(rows, LAMBDA r : r.path = p)

\* INSERT without the ON CONFLICT clause and without the primary key
upsert_image_inserts(rows, rec) == Append(rows, rec)

\* INSERT ... ON CONFLICT(path) DO UPDATE SET <every other column>
upsert_image(rows, rec) ==
    IF \E i \in 1..Len(rows) : rows[i].path = rec.path
    THEN [i \in 1..Len(rows) |-> IF rows[i].path = rec.path THEN rec ELSE rows[i]]
    ELSE Append(rows, rec)

\* DELETE FROM images WHERE path=?
delete_image(rows, p) == SelectSeq(rows, LAMBDA r : r.path # p)

\* SELECT ... WHERE path=?; fetchone(): <<>> stands for None, <<r>> for r
get_image(rows, p) ==
    IF RowsOf(rows, p) = <<>> THEN <<>> ELSE <<RowsOf(rows, p)[1]>>

\* SELECT ... ORDER BY path
iter_images(rows) ==
    StableSort(rows, [i \in 1..Len(rows), j \in 1..Len(rows) |->
                         PathRank(rows[i].path) < PathRank(rows[j].path)])

(***************************************************************************)
(* utils.merge_image_metadata                                              *)
(*                                                                         *)
(* A metadata file is what pyexiv2 sees of an image: whether Image(path)   *)
(* and the three read_* calls succeed, and the value of each key (Absent   *)
(* when the key is not in the dict read).  One key per namespace.          *)
(***************************************************************************)
Absent == 0
Values == {1, 2}
NsOrder == <<"exif", "iptc", "xmp">>     \* the order of the modify_* calls
MetaKeys == {<<"exif", "Exif.Image.Make">>, <<"iptc", "Iptc.Application2.Caption">>,
             <<"xmp", "Xmp.dc.subject">>}
NsIndex(ns) == CHOOSE i \in 1..Len(NsOrder) : NsOrder[i] = ns
NoMeta == [k \in MetaKeys |-> Absent]
UnreadableMeta == [readable |-> FALSE, meta |-> NoMeta]
MetaFiles(vals) ==
    {[readable |-> TRUE, meta |-> m] : m \in [MetaKeys -> vals \cup {Absent}]}
        \cup {UnreadableMeta}

\* What can raise inside merge_image_metadata's outer try, apart from the
\* target being unreadable: the import of pyexiv2, or one of the modify_* calls.
MergeFaults == {"none", "import", "exif", "iptc", "xmp"}

\* "if k not in target_exif and k not in new_exif: new_exif[k] = v"
MergeKeyLastWins(target, new, src, k) ==
    IF src[k] # Absent /\ target[k] = Absent THEN src[k] ELSE new[k]
MergeKey(target, new, src, k) ==
    IF src[k] # Absent /\ target[k] = Absent /\ new[k] = Absent THEN src[k] ELSE new[k]

\* The loop over source_paths: new_exif, new_iptc, new_xmp after all sources.
\* A source that cannot be read is skipped ("except Exception: continue").
RECURSIVE MergeLoop(_, _, _)
MergeLoop(sources, target, new) ==
    IF sources = <<>> THEN new
    ELSE LET src == Head(sources)
             new2 == IF src.readable
                     THEN [k \in MetaKeys |-> MergeKey(target, new, src.meta, k)]
                     ELSE new
         IN  MergeLoop(Tail(sources), target, new2)

\* The modify_* calls that complete: all of them, or those before the one that raises.
WrittenStages(fault) ==
    IF fault \in Range(NsOrder) THEN 1..(NsIndex(fault) - 1) ELSE 1..Len(NsOrder)

\* The result: the target's metadata afterwards, and whether "Failed to merge
\* metadata" was printed.
merge_image_metadata(sources, target, fault) ==
    IF fault = "import" \/ ~target.readable
    THEN [meta |-> target.meta, printed |-> TRUE]
    ELSE LET new == MergeLoop(sources, target.meta, NoMeta)
             modified == \E k \in MetaKeys : new[k] # Absent
             done == WrittenStages(fault)
         IN  IF ~modified
             THEN [meta |-> target.meta, printed |-> FALSE]
             ELSE [meta |-> [k \in MetaKeys |->
                               IF NsIndex(k[1]) \in done /\ new[k] # Absent
                               THEN new[k] ELSE target.meta[k]],
                   printed |-> fault \in Range(NsOrder)]

(***************************************************************************)
(* The file system, as the dialog reads it                                 *)
(***************************************************************************)
\* A path with no file: os.path.exists is False, Path.stat raises OSError,
\* QPixmap(path) is null (0 x 0), pyexiv2.Image(path) raises.
NoFile == [exists |-> FALSE, w |-> 0, h |-> 0, mtime |-> 0, size |-> 0,
           readable |-> FALSE, meta |-> NoMeta]

\* QPixmap(p).width() * QPixmap(p).height(); a null pixmap is 0 x 0.
PixArea(d, p) == d[p].w * d[p].h

\* What pyexiv2 sees of the file at p.
MetaOf(d, p) ==
    IF d[p].exists /\ d[p].readable THEN [readable |-> TRUE, meta |-> d[p].meta]
    ELSE UnreadableMeta

(***************************************************************************)
(* db.PhotoDB: the images table                                            *)
(***************************************************************************)
StorePaths(st) == {r.path : r \in st}

\* delete_image for every path of ps, committed.
DeleteImages(st, ps) == {r \in st : r.path \notin ps}

\* iter_images: every row, ORDER BY path.
IterImages(st) ==
    LET n == Cardinality(st)
    IN  IF n = 0 THEN <<>>
        ELSE CHOOSE s \in [1..n -> st] :
                 \A i, j \in 1..n : i < j => PathRank(s[i].path) < PathRank(s[j].path)

ShaCount(st, h) == Cardinality({r \in st : r.sha256 = h})

\* "ORDER BY COUNT(*) DESC, sha256"
ShaOrderLt(st, a, b) ==
    \/ ShaCount(st, a) > ShaCount(st, b)
    \/ ShaCount(st, a) = ShaCount(st, b) /\ a < b

\* The hashes the first query of get_duplicate_groups_sha256 returns without
\* LIMIT and OFFSET: GROUP BY sha256 HAVING COUNT(*) > 1, ordered.
DuplicateShas(st) ==
    LET dup == {h \in {r.sha256 : r \in st} : ShaCount(st, h) > 1}
        n == Cardinality(dup)
    IN  IF n = 0 THEN <<>>
        ELSE CHOOSE s \in [1..n -> dup] :
                 \A i, j \in 1..n : i < j => ShaOrderLt(st, s[i], s[j])

\* "SELECT * FROM images WHERE sha256 = ? ORDER BY score DESC": SQL leaves the
\* order of rows with equal score open, so every such order is possible.
RowsByScoreDesc(st, h) ==
    LET rows == {r \in st : r.sha256 = h}
        n == Cardinality(rows)
    IN  {s \in [1..n -> rows] :
            /\ \A i, j \in 1..n : i # j => s[i] # s[j]
            /\ \A i, j \in 1..n : i < j => s[i].score >= s[j].score}

\* get_duplicate_groups_sha256(limit=1, offset): the possible results, each a
\* list of at most one group.
get_duplicate_groups_sha256(st, offset) ==
    LET shas == DuplicateShas(st)
    IN  IF offset + 1 > Len(shas) THEN {<<>>}
        ELSE {<<g>> : g \in RowsByScoreDesc(st, shas[offset + 1])}

PathsOf(g) == [i \in 1..Len(g) |-> g[i].path]

(***************************************************************************)
(* ResolveDuplicatesDialog: auto-select                                    *)
(***************************************************************************)
OlderTolerance == 1000     \* "abs(c['mtime'] - min_mtime) < 1.0", in milliseconds

Criteria == {"older", "larger", "deeper"}

\* len(Path(p).parts)
Depth(p) == Len(PathParts(p))

\* The candidates of _run_auto_select: the paths whose stat() succeeds.
StatCandidates(group, d) == {p \in Range(group) : d[p].exists}

OlderWinners(cands, d) ==
    LET min_mtime == SetMin({d[p].mtime : p \in cands})
    IN  {p \in cands : Abs(d[p].mtime - min_mtime) < OlderTolerance}

LargerWinners(cands, d) ==
    LET max_size == SetMax({d[p].size : p \in cands})
    IN  {p \in cands : d[p].size = max_size}

ShallowerWinners(cands, d) ==
    LET min_depth == SetMin({Depth(p) : p \in cands})
    IN  {p \in cands : Depth(p) = min_depth}
DeeperWinners(cands, d) ==
    LET max_depth == SetMax({Depth(p) : p \in cands})
    IN  {p \in cands : Depth(p) = max_depth}

\* scores[p] after the three criteria blocks.
AutoScore(p, cands, d, c) ==
      (IF c["older"] /\ p \in OlderWinners(cands, d) THEN 1 ELSE 0)
    + (IF c["larger"] /\ p \in LargerWinners(cands, d) THEN 1 ELSE 0)
    + (IF c["deeper"] /\ p \in DeeperWinners(cands, d) THEN 1 ELSE 0)

ActiveCriteria(c) == Cardinality({x \in Criteria : c[x]})

\* _select_none and _select_path: the selection and the Delete button.
SelectNone == [selected_path |-> None, btn_delete |-> FALSE]
SelectPath(p) == [selected_path |-> p, btn_delete |-> TRUE]

\* "best = [k for k, v in scores.items() if v == max_score]", then the choice.
PickBestAny(best) ==
    SelectPath(CHOOSE p \in best : TRUE)
PickBest(best) ==
    IF Cardinality(best) = 1 THEN SelectPath(CHOOSE p \in best : TRUE) ELSE SelectNone

\* What _run_auto_select does once active_criteria has been counted.
Decide(cands, d, c, prev) ==
    IF ActiveCriteria(c) = 0 THEN prev
    ELSE LET max_score == SetMax({AutoScore(p, cands, d, c) : p \in cands})
             best == {p \in cands : AutoScore(p, cands, d, c) = max_score}
         IN  IF max_score = 0 THEN SelectNone ELSE PickBest(best)

\* Python's list indexing: seq[i], with a negative i counted from the end;
\* outside -len..len-1 it raises IndexError.
PyIndexOk(seq, i) == -Len(seq) <= i /\ i < Len(seq)
PyGet(seq, i) == IF i >= 0 THEN seq[i + 1] ELSE seq[Len(seq) + i + 1]

\* _run_auto_select: the selection and the Delete button afterwards.  prev is
\* what they were before; the early returns leave them as they are, and so does
\* the IndexError that self._groups[-1] raises on an empty list.
run_auto_select(dyn, grps, idx, cache, d, c, prev) ==
    IF ~dyn /\ (idx >= Len(grps) \/ ~PyIndexOk(grps, idx)) THEN prev
    ELSE LET group == IF dyn THEN cache ELSE PyGet(grps, idx)
             cands == StatCandidates(group, d)
         IN  IF group = <<>> THEN prev
             ELSE IF cands = {} THEN prev
             ELSE Decide(cands, d, c, prev)

(***************************************************************************)
(* ResolveDuplicatesDialog: loading and removing groups                    *)
(***************************************************************************)
\* "if self._current_index < 0 ... if self._current_index >= total ..."
ClampIndex(idx, total) ==
    LET i == IF idx < 0 THEN 0 ELSE idx
    IN  IF i >= total THEN total - 1 ELSE i

\* _load_group (the second definition, which is the one in effect): the values
\* of the fields it writes.  Several results where the SQL order is open.
load_group(dyn, grps, idx, cache, d, st, c, ignoreBtn) ==
    IF dyn
    THEN {LET current == IF got = <<>> THEN <<>> ELSE PathsOf(got[1])
              picked == IF current = <<>> THEN SelectNone
                        ELSE run_auto_select(dyn, grps, idx, current, d, c, SelectNone)
          IN  [current_index |-> idx, current_group_cache |-> current,
               selected_path |-> picked.selected_path,
               btn_delete |-> picked.btn_delete, btn_ignore |-> ignoreBtn]
          : got \in get_duplicate_groups_sha256(st, idx)}
    ELSE IF Len(grps) = 0
    THEN {[current_index |-> idx, current_group_cache |-> cache,
           selected_path |-> None, btn_delete |-> FALSE, btn_ignore |-> FALSE]}
    ELSE LET i == ClampIndex(idx, Len(grps))
             current == grps[i + 1]
             picked == IF current = <<>> THEN SelectNone
                       ELSE run_auto_select(dyn, grps, i, cache, d, c, SelectNone)
         IN  {[current_index |-> i, current_group_cache |-> cache,
               selected_path |-> picked.selected_path,
               btn_delete |-> picked.btn_delete, btn_ignore |-> ignoreBtn]}

\* "del self._groups[self._current_index]"
DelAt(seq, i) == [k \in 1..(Len(seq) - 1) |-> IF k < i + 1 THEN seq[k] ELSE seq[k + 1]]

\* _remove_current_group_from_list, up to the call of _load_group: the list and
\* the index.
GroupsAfterRemove(dyn, grps, idx) ==
    IF dyn THEN [groups |-> grps, current_index |-> idx]
    ELSE LET g2 == DelAt(grps, idx)
         IN  [groups |-> g2,
              current_index |-> IF idx >= Len(g2) THEN Len(g2) - 1 ELSE idx]

\* The group on display: what _on_delete and _on_ignore read as paths, and what
\* the items of the grid were built from.
CurrentPaths ==
    IF dynamic_mode THEN current_group_cache
    ELSE IF PyIndexOk(groups, current_index) THEN PyGet(groups, current_index)
    ELSE <<>>

(***************************************************************************)
(* ResolveDuplicatesDialog._on_delete                                      *)
(***************************************************************************)
\* "to_delete = [p for p in paths if p != self._selected_path]"
ToDeleteWholeGroup(paths, sel) == paths

ToDelete(paths, sel) == SelectSeq(paths, LAMBDA p : p # sel)

\* The resolution safety check: some candidate that exists has a larger pixel
\* area than the kept image.
SafetyBlockedOrEqual(d, sel, cands) ==
    \E i \in 1..Len(cands) :
        d[cands[i]].exists /\ PixArea(d, cands[i]) >= PixArea(d, sel)
SafetyBlocked(d, sel, cands) ==
    \E i \in 1..Len(cands) :
        d[cands[i]].exists /\ PixArea(d, cands[i]) > PixArea(d, sel)

\* How _on_delete goes on after its checks: noop (nothing selected), blocked,
\* declined (the confirmation was answered No), or run.
delete_request(d, sel, cands, confirm, yes) ==
    IF sel = None THEN "noop"
    ELSE IF SafetyBlocked(d, sel, cands) THEN "blocked"
    ELSE IF confirm /\ ~yes THEN "declined"
    ELSE "run"

\* The statement an accepted request continues with: "# 1. Merge Metadata".
FirstStep == "merge"

\* Where _on_delete stands after its checks: the three "return"s end it.
RequestNextPcFallsThrough(how) == IF how \in {"run", "blocked"} THEN FirstStep ELSE "idle"
RequestNextPc(how) == IF how = "run" THEN FirstStep ELSE "idle"

\* One pass of "for p in to_delete": os.remove unless the file is absent, then
\* db.delete_image; raises says that os.remove raised.
delete_one_record_first(d, t, p, raises) ==
    IF d[p].exists /\ raises
    THEN [disk |-> d, txn |-> t \cup {p}, ok |-> FALSE]
    ELSE [disk |-> [d EXCEPT ![p] = NoFile], txn |-> t \cup {p}, ok |-> TRUE]
delete_one(d, t, p, raises) ==
    IF d[p].exists /\ raises
    THEN [disk |-> d, txn |-> t, ok |-> FALSE]
    ELSE [disk |-> [d EXCEPT ![p] = NoFile], txn |-> t \cup {p}, ok |-> TRUE]

\* _on_ignore: the rows left after delete_image for every path of the group.
ignore_store_keeps_first(st, paths) ==
    DeleteImages(st, Range(paths) \ {paths[1]})
ignore_store(st, paths) == DeleteImages(st, Range(paths))

(***************************************************************************)
(* The dialog's handlers as actions                                        *)
(***************************************************************************)
requestVars == <<pc, sel_keep, to_delete, remaining, deleted_count, errors,
                 merge_state, merge_fault, merge_printed>>

\* No delete request is running and none has just ended: its locals are gone.
RequestCleared ==
    /\ pc' = "idle" /\ sel_keep' = None /\ to_delete' = <<>> /\ remaining' = <<>>
    /\ deleted_count' = 0 /\ errors' = <<>>
    /\ merge_state' = "no" /\ merge_fault' = "none" /\ merge_printed' = FALSE

\* The fields _load_group writes take the values of one of its results.
Loaded(r) ==
    /\ current_index' = r.current_index
    /\ current_group_cache' = r.current_group_cache
    /\ selected_path' = r.selected_path
    /\ btn_delete' = r.btn_delete
    /\ btn_ignore' = r.btn_ignore

\* A click on an item of the grid: _on_item_selected, _select_path.
OnItemSelected(p) ==
    /\ pc = "idle"
    /\ p \in Range(CurrentPaths)
    /\ selected_path' = SelectPath(p).selected_path
    /\ btn_delete' = SelectPath(p).btn_delete
    /\ last' = "select"
    /\ RequestCleared
    /\ UNCHANGED <<disk, store, txn, dynamic_mode, groups, current_index,
                   current_group_cache, btn_ignore, chk>>

\* A criteria check box is toggled: _on_criteria_changed, _run_auto_select.
OnCriteriaChanged(x) ==
    /\ pc = "idle"
    /\ chk' = [chk EXCEPT ![x] = ~chk[x]]
    /\ LET picked == run_auto_select(dynamic_mode, groups, current_index,
                                     current_group_cache, disk, chk',
                                     [selected_path |-> selected_path,
                                      btn_delete |-> btn_delete])
       IN  /\ selected_path' = picked.selected_path
           /\ btn_delete' = picked.btn_delete
    /\ last' = "criteria"
    /\ RequestCleared
    /\ UNCHANGED <<disk, store, txn, dynamic_mode, groups, current_index,
                   current_group_cache, btn_ignore>>

\* _on_prev
OnPrev ==
    /\ pc = "idle"
    /\ IF current_index > 0
       THEN \E r \in load_group(dynamic_mode, groups, current_index - 1,
                                current_group_cache, disk, store, chk, btn_ignore) :
                Loaded(r)
       ELSE UNCHANGED <<current_index, current_group_cache, selected_path,
                        btn_delete, btn_ignore>>
    /\ last' = "prev"
    /\ RequestCleared
    /\ UNCHANGED <<disk, store, txn, dynamic_mode, groups, chk>>

\* _on_next
OnNext ==
    /\ pc = "idle"
    /\ IF current_index < Len(groups) - 1
       THEN \E r \in load_group(dynamic_mode, groups, current_index + 1,
                                current_group_cache, disk, store, chk, btn_ignore) :
                Loaded(r)
       ELSE UNCHANGED <<current_index, current_group_cache, selected_path,
                        btn_delete, btn_ignore>>
    /\ last' = "next"
    /\ RequestCleared
    /\ UNCHANGED <<disk, store, txn, dynamic_mode, groups, chk>>

\* _on_delete up to "# 1. Merge Metadata": the selection test, the resolution
\* safety check and the confirmation.  confirm is the confirm_delete setting,
\* yes the answer to the question.
OnDeleteRequest ==
    /\ pc = "idle"
    /\ btn_delete
    /\ \E confirm, yes \in BOOLEAN :
         LET cands == ToDelete(CurrentPaths, selected_path)
             how == delete_request(disk, selected_path, cands, confirm, yes)
         IN  /\ last' = how
             /\ pc' = RequestNextPc(how)
             /\ sel_keep' = selected_path
             /\ to_delete' = cands
             /\ remaining' = IF RequestNextPc(how) = "idle" THEN <<>> ELSE cands
    /\ deleted_count' = 0
    /\ errors' = <<>>
    /\ merge_state' = "no"
    /\ merge_fault' = "none"
    /\ merge_printed' = FALSE
    /\ UNCHANGED <<disk, store, txn, dynamic_mode, groups, current_index,
                   current_group_cache, selected_path, btn_delete, btn_ignore, chk>>

\* "merge_image_metadata(to_delete, self._selected_path)"
OnDeleteMerge ==
    /\ pc = "merge"
    /\ \E fault \in MergeFaults :
         LET r == merge_image_metadata([i \in 1..Len(to_delete) |-> MetaOf(disk, to_delete[i])],
                                       MetaOf(disk, sel_keep), fault)
         IN  /\ disk' = IF MetaOf(disk, sel_keep).readable
                        THEN [disk EXCEPT ![sel_keep].meta = r.meta] ELSE disk
             /\ merge_printed' = r.printed
             /\ merge_fault' = fault
    /\ merge_state' = "done"
    /\ pc' = "loop"
    /\ last' = "merge"
    /\ UNCHANGED <<store, txn, dynamic_mode, groups, current_index,
                   current_group_cache, selected_path, btn_delete, btn_ignore, chk,
                   sel_keep, to_delete, remaining, deleted_count, errors>>

\* One pass of the loop "for p in to_delete".
OnDeleteOne ==
    /\ pc = "loop"
    /\ remaining # <<>>
    /\ LET p == Head(remaining)
       IN  \E raises \in (IF disk[p].exists THEN BOOLEAN ELSE {FALSE}) :
             LET r == delete_one(disk, txn, p, raises)
             IN  /\ disk' = r.disk
                 /\ txn' = r.txn
                 /\ deleted_count' = IF r.ok THEN deleted_count + 1 ELSE deleted_count
                 /\ errors' = IF r.ok THEN errors ELSE Append(errors, p)
    /\ remaining' = Tail(remaining)
    /\ last' = "remove"
    /\ UNCHANGED <<store, dynamic_mode, groups, current_index,
                   current_group_cache, selected_path, btn_delete, btn_ignore, chk,
                   pc, sel_keep, to_delete, merge_state, merge_fault, merge_printed>>

\* After the loop: db.commit(), the "Delete Errors" box, and, if something was
\* deleted, _remove_current_group_from_list with its _load_group.
OnDeleteFinish ==
    /\ pc = "loop"
    /\ remaining = <<>>
    /\ store' = DeleteImages(store, txn)
    /\ txn' = {}
    /\ IF deleted_count > 0
       THEN LET g == GroupsAfterRemove(dynamic_mode, groups, current_index)
            IN  /\ groups' = g.groups
                /\ \E r \in load_group(dynamic_mode, g.groups, g.current_index,
                                       current_group_cache, disk, store', chk, btn_ignore) :
                       Loaded(r)
       ELSE UNCHANGED <<groups, current_index, current_group_cache, selected_path,
                        btn_delete, btn_ignore>>
    /\ pc' = "idle"
    /\ last' = "delete_done"
    /\ UNCHANGED <<disk, dynamic_mode, chk, sel_keep, to_delete, remaining,
                   deleted_count, errors, merge_state, merge_fault, merge_printed>>

\* _on_ignore; yes is the answer to "Confirm Ignore".
OnIgnore ==
    /\ pc = "idle"
    /\ btn_ignore
    /\ \E yes \in BOOLEAN :
         IF yes
         THEN /\ store' = ignore_store(store, CurrentPaths)
              /\ LET g == GroupsAfterRemove(dynamic_mode, groups, current_index)
                 IN  /\ groups' = g.groups
                     /\ \E r \in load_group(dynamic_mode, g.groups, g.current_index,
                                            current_group_cache, disk, store', chk,
                                            btn_ignore) :
                            Loaded(r)
              /\ last' = "ignore_done"
         ELSE /\ UNCHANGED <<store, groups, current_index, current_group_cache,
                             selected_path, btn_delete, btn_ignore>>
              /\ last' = "ignore_declined"
    /\ RequestCleared
    /\ UNCHANGED <<disk, txn, dynamic_mode, chk>>

(***************************************************************************)
(* Spec: the resolve dialog over a store of five images in two duplicate   *)
(* groups.  The pixel sizes of the files and which of them are missing are *)
(* drawn from bounded sets; stat values and metadata are fixed per path.   *)
(***************************************************************************)
FixtureStore ==
    {[path |-> "/a/1.jpg",   sha256 |-> 1, score |-> 2],
     [path |-> "/a/2.jpg",   sha256 |-> 1, score |-> 2],
     [path |-> "/a/b/3.jpg", sha256 |-> 1, score |-> 1],
     [path |-> "/c/4.jpg",   sha256 |-> 2, score |-> 2],
     [path |-> "/c/5.jpg",   sha256 |-> 2, score |-> 1]}

FixtureMtime(p) == CASE p = "/a/1.jpg" -> 0 [] p = "/a/2.jpg" -> 500
                     [] p = "/a/b/3.jpg" -> 2000 [] OTHER -> 0
FixtureSize(p) == IF p = "/a/1.jpg" THEN 2 ELSE 1
FixtureMeta(p) ==
    CASE p = "/a/1.jpg"   -> [NoMeta EXCEPT ![<<"exif", "Exif.Image.Make">>] = 1]
      [] p = "/a/2.jpg"   -> [NoMeta EXCEPT ![<<"exif", "Exif.Image.Make">>] = 2,
                                            ![<<"iptc", "Iptc.Application2.Caption">>] = 2]
      [] p = "/a/b/3.jpg" -> [NoMeta EXCEPT ![<<"iptc", "Iptc.Application2.Caption">>] = 1,
                                            ![<<"xmp", "Xmp.dc.subject">>] = 1]
      [] OTHER            -> NoMeta
\* Whether pyexiv2 can open the file at p and read its three dicts.
FixtureReadable(p) == p # "/c/5.jpg"

\* The pixel sizes QPixmap may report for the file at p.
DimChoices(p) ==
    CASE p = "/a/1.jpg"   -> {<<1, 2>>, <<2, 2>>}
      [] p = "/a/2.jpg"   -> {<<2, 1>>, <<2, 2>>}
      [] p = "/a/b/3.jpg" -> {<<2, 1>>}
      [] p = "/c/4.jpg"   -> {<<2, 2>>}
      [] OTHER            -> {<<2, 2>>, <<3, 3>>}

FixtureFile(p, dim) ==
    [exists |-> TRUE, w |-> dim[1], h |-> dim[2], mtime |-> FixtureMtime(p),
     size |-> FixtureSize(p), readable |-> FixtureReadable(p),
     meta |-> IF FixtureReadable(p) THEN FixtureMeta(p) ELSE NoMeta]

DialogDisks ==
    LET allDims == UNION {DimChoices(p) : p \in Paths}
        dimsOk == {f \in [Paths -> allDims] : \A p \in Paths : f[p] \in DimChoices(p)}
        gone == {m \in SUBSET Paths : Cardinality(m) <= MaxMissing}
    IN  {[p \in Paths |-> IF p \in m THEN NoFile ELSE FixtureFile(p, f[p])] :
            f \in dimsOk, m \in gone}

NoCriteria == [x \in Criteria |-> FALSE]

\* The variables of the other specifications, at rest.
GroupingAtRest == records = <<>> /\ result = <<>> /\ threshold = 0
\* No scan has been started: the window has created the event and set it.
ScanAtRest ==
    /\ nfiles = 0 /\ enrich = FALSE /\ running_event = TRUE /\ scan_pc = "idle"
    /\ scanned = 0 /\ indexed = 0 /\ skipped = 0 /\ upserts = 0 /\ uncommitted = 0
    /\ callbacks = 0 /\ paused_callbacks = 0 /\ inflight_at_clear = FALSE
    /\ label_windows = 0 /\ resolve_open = FALSE
MergeAtRest ==
    /\ m_target = UnreadableMeta /\ m_sources = <<>>
    /\ m_out = [meta |-> NoMeta, printed |-> FALSE, fault |-> "none"]
RequestAtRest ==
    /\ pc = "idle" /\ sel_keep = None /\ to_delete = <<>> /\ remaining = <<>>
    /\ deleted_count = 0 /\ errors = <<>>
    /\ merge_state = "no" /\ merge_fault = "none" /\ merge_printed = FALSE

\* The dialog after __init__, which ends with _load_group():
\* ResolveDuplicatesDialog(db_path, groups, start_index=0).
DialogConstructed(grps) ==
    /\ groups = grps
    /\ txn = {}
    /\ \E r \in load_group(dynamic_mode, grps, 0, <<>>, disk, store, chk, TRUE) :
         /\ current_index = r.current_index
         /\ current_group_cache = r.current_group_cache
         /\ selected_path = r.selected_path
         /\ btn_delete = r.btn_delete
         /\ btn_ignore = r.btn_ignore
    /\ RequestAtRest
    /\ last = "init"

\* The groups a caller passes in static mode: the content-hash groups of the
\* store, as lists of paths.
StaticGroups(st) ==
    LET gs == group_duplicates_by_sha256(IterImages(st))
    IN  [i \in 1..Len(gs) |-> PathsOf(gs[i])]

Init ==
    /\ disk \in DialogDisks
    /\ store = FixtureStore
    /\ dynamic_mode \in BOOLEAN
    /\ chk \in {NoCriteria, [NoCriteria EXCEPT !["larger"] = TRUE]}
    /\ DialogConstructed(IF dynamic_mode THEN <<>> ELSE StaticGroups(store))
    /\ GroupingAtRest
    /\ MergeAtRest
    /\ ScanAtRest

Next ==
    \/ \E p \in Paths : OnItemSelected(p) /\ UNCHANGED <<groupVars, mergeVars, scanVars>>
    \/ OnPrev /\ UNCHANGED <<groupVars, mergeVars, scanVars>>
    \/ OnNext /\ UNCHANGED <<groupVars, mergeVars, scanVars>>
    \/ OnDeleteRequest /\ UNCHANGED <<groupVars, mergeVars, scanVars>>
    \/ OnDeleteMerge /\ UNCHANGED <<groupVars, mergeVars, scanVars>>
    \/ OnDeleteOne /\ UNCHANGED <<groupVars, mergeVars, scanVars>>
    \/ OnDeleteFinish /\ UNCHANGED <<groupVars, mergeVars, scanVars>>
    \/ OnIgnore /\ UNCHANGED <<groupVars, mergeVars, scanVars>>

Spec == Init /\ [][Next]_vars

(***************************************************************************)
(* SpecSha: group_duplicates_by_sha256 applied to every list of at most    *)
(* MaxRecs records with pairwise different paths.                          *)
(***************************************************************************)
DialogAtRest ==
    /\ disk = [p \in Paths |-> NoFile]
    /\ store = {}
    /\ txn = {}
    /\ dynamic_mode = FALSE
    /\ groups = <<>>
    /\ current_index = 0
    /\ current_group_cache = <<>>
    /\ selected_path = None
    /\ btn_delete = FALSE
    /\ btn_ignore = FALSE
    /\ chk = NoCriteria
    /\ RequestAtRest

InitSha ==
    /\ \E k \in 0..MaxRecs : records \in RecordLists(k)
    /\ result = <<>>
    /\ threshold = 0
    /\ last = "init"
    /\ DialogAtRest
    /\ MergeAtRest
    /\ ScanAtRest

GroupSha ==
    /\ last = "init"
    /\ result' = group_duplicates_by_sha256(records)
    /\ last' = "group_sha"
    /\ UNCHANGED <<records, threshold, dialogVars, mergeVars, scanVars>>

NextSha == GroupSha

SpecSha == InitSha /\ [][NextSha]_vars

(***************************************************************************)
(* SpecPhash: group_duplicates_by_phash applied to bounded record lists    *)
(* and thresholds.                                                         *)
(***************************************************************************)
InitPhash ==
    /\ \E k \in 0..MaxRecs : \E f \in [1..k -> [phash : Phashes, score : Scores]] :
           records = PhashList(f)
    /\ result = <<>>
    /\ threshold \in PhashThresholds
    /\ last = "init"
    /\ DialogAtRest
    /\ MergeAtRest
    /\ ScanAtRest

GroupPhash ==
    /\ last = "init"
    /\ result' = group_duplicates_by_phash(records, threshold)
    /\ last' = "group_phash"
    /\ UNCHANGED <<records, threshold, dialogVars, mergeVars, scanVars>>

NextPhash == GroupPhash

SpecPhash == InitPhash /\ [][NextPhash]_vars

(***************************************************************************)
(* SpecPhashLoop: group_duplicates_by_phash pass by pass.  result holds    *)
(* the function's locals: remaining, groups, the clusters formed so far    *)
(* (history, those of one record included) and, once it has returned, the  *)
(* value.  The function runs on without waiting for anything, hence the    *)
(* fairness.                                                               *)
(***************************************************************************)
LoopPhashes == {<<0, 0>>, <<0, 1>>, <<1, 1>>}
LoopThresholds == {0, 1}

InitPhashLoop ==
    /\ records = <<>>
    /\ result = [remaining |-> <<>>, groups |-> <<>>, clusters |-> <<>>,
                 called |-> FALSE, returned |-> FALSE, value |-> <<>>]
    /\ threshold = 0
    /\ last = "init"
    /\ DialogAtRest
    /\ MergeAtRest
    /\ ScanAtRest

\* The call: "remaining = records[:]; groups = []".
PhashCall ==
    /\ ~result.called
    /\ \E k \in 0..MaxRecs : \E f \in [1..k -> [phash : LoopPhashes, score : Scores]] :
           /\ records' = PhashList(f)
           /\ result' = [result EXCEPT !.called = TRUE, !.remaining = PhashList(f)]
    /\ threshold' \in LoopThresholds
    /\ last' = "call"
    /\ UNCHANGED <<dialogVars, mergeVars, scanVars>>

\* One pass of the while loop.
PhashPass ==
    /\ result.called /\ ~result.returned
    /\ result.remaining # <<>>
    /\ \E pass \in {phash_pass(result.remaining, threshold)} :
       \E sorted \in {SortByScoreDesc(pass.cluster)} :
           result' = [result EXCEPT
                         !.remaining = pass.keep,
                         !.clusters = Append(@, pass.cluster),
                         !.groups = IF Len(pass.cluster) > 1
                                    THEN Append(@, sorted)
                                    ELSE @]
    /\ last' = "pass"
    /\ UNCHANGED <<records, threshold, dialogVars, mergeVars, scanVars>>

\* The loop has ended: "groups.sort(...); return groups".
PhashReturn ==
    /\ result.called /\ ~result.returned
    /\ result.remaining = <<>>
    /\ result' = [result EXCEPT !.returned = TRUE, !.value = SortClusters(result.groups)]
    /\ last' = "return"
    /\ UNCHANGED <<records, threshold, dialogVars, mergeVars, scanVars>>

NextPhashLoop == PhashCall \/ PhashPass \/ PhashReturn

\* Once called, the function runs: a pass or the return that can be taken is
\* taken.
SpecPhashLoop ==
    InitPhashLoop /\ [][NextPhashLoop]_vars /\ WF_vars(PhashPass \/ PhashReturn)

(***************************************************************************)
(* SpecEmbed: group_duplicates_by_embedding applied to bounded record      *)
(* lists and thresholds.                                                   *)
(***************************************************************************)
InitEmbed ==
    /\ \E k \in 0..MaxRecs :
           \E f \in [1..k -> [embedding : Vectors \cup {NoEmbedding}, score : Scores]] :
               records = EmbeddedList(f)
    /\ result = <<>>
    /\ threshold \in SimThresholds
    /\ last = "init"
    /\ DialogAtRest
    /\ MergeAtRest
    /\ ScanAtRest

GroupEmbed ==
    /\ last = "init"
    /\ result' = group_duplicates_by_embedding(records, threshold)
    /\ last' = "group_embedding"
    /\ UNCHANGED <<records, threshold, dialogVars, mergeVars, scanVars>>

NextEmbed == GroupEmbed

SpecEmbed == InitEmbed /\ [][NextEmbed]_vars

(***************************************************************************)
(* SpecCluster: the two clustering functions, each over its record lists.  *)
(***************************************************************************)
InitCluster == InitPhash \/ InitEmbed

NextCluster ==
    \/ (\A i \in 1..Len(records) : "phash" \in DOMAIN records[i]) /\ GroupPhash
    \/ (\A i \in 1..Len(records) : "embedding" \in DOMAIN records[i]) /\ GroupEmbed

SpecCluster == InitCluster /\ [][NextCluster]_vars

(***************************************************************************)
(* SpecHamming: hamming_distance_hex_phash applied to every pair of hex    *)
(* strings of at most MaxHexLen digits; records holds the two arguments,   *)
(* result the value returned.                                              *)
(***************************************************************************)
InitHamming ==
    /\ records \in [1..2 -> HexStrings]
    /\ result = <<>>
    /\ threshold = 0
    /\ last = "init"
    /\ DialogAtRest
    /\ MergeAtRest
    /\ ScanAtRest

Distance ==
    /\ last = "init"
    /\ result' = <<hamming_distance_hex_phash(records[1], records[2])>>
    /\ last' = "distance"
    /\ UNCHANGED <<records, threshold, dialogVars, mergeVars, scanVars>>

NextHamming == Distance

SpecHamming == InitHamming /\ [][NextHamming]_vars

(***************************************************************************)
(* SpecBoth: group_duplicates_by_sha256 and group_duplicates_by_phash with *)
(* threshold 0 applied to the same records; result holds the two lists     *)
(* returned.                                                               *)
(***************************************************************************)
DualPhashes == {<<0, 0>>, <<0, 1>>, <<1, 0>>}
DualFields == [sha256 : Shas, phash : DualPhashes, score : Scores]

\* The records of the given fields in the order of PhotoDB.iter_images
\* (ascending path).
DualList(f) ==
    [i \in DOMAIN f |-> [path |-> PathOrder[i], sha256 |-> f[i].sha256,
                         phash |-> f[i].phash, score |-> f[i].score]]

InitBoth ==
    /\ \E k \in 0..MaxRecs : \E f \in [1..k -> DualFields] : records = DualList(f)
    /\ result = <<>>
    /\ threshold = 0
    /\ last = "init"
    /\ DialogAtRest
    /\ MergeAtRest
    /\ ScanAtRest

GroupBoth ==
    /\ last = "init"
    /\ result' = <<group_duplicates_by_sha256(records),
                   group_duplicates_by_phash(records, threshold)>>
    /\ last' = "group_both"
    /\ UNCHANGED <<records, threshold, dialogVars, mergeVars, scanVars>>

NextBoth == GroupBoth

SpecBoth == InitBoth /\ [][NextBoth]_vars

(***************************************************************************)
(* SpecStore: upsert_image, delete_image, get_image and iter_images in any *)
(* order on one connection; records holds the rows of the images table,    *)
(* result the last call with its argument and the value it returned.       *)
(***************************************************************************)
InitStore ==
    /\ records = <<>>
    /\ result = [call |-> "connect", arg |-> <<>>, value |-> <<>>]
    /\ threshold = 0
    /\ last = "init"
    /\ DialogAtRest
    /\ MergeAtRest
    /\ ScanAtRest

UpsertImageCall ==
    /\ \E rec \in StoreRecord :
           /\ records' = upsert_image(records, rec)
           /\ result' = [call |-> "upsert_image", arg |-> <<rec>>, value |-> <<>>]
    /\ last' = "upsert_image"
    /\ UNCHANGED <<threshold, dialogVars, mergeVars, scanVars>>

DeleteImageCall ==
    /\ \E p \in TablePaths :
           /\ records' = delete_image(records, p)
           /\ result' = [call |-> "delete_image", arg |-> <<p>>, value |-> <<>>]
    /\ last' = "delete_image"
    /\ UNCHANGED <<threshold, dialogVars, mergeVars, scanVars>>

GetImageCall ==
    /\ \E p \in TablePaths :
           result' = [call |-> "get_image", arg |-> <<p>>, value |-> get_image(records, p)]
    /\ last' = "get_image"
    /\ UNCHANGED <<records, threshold, dialogVars, mergeVars, scanVars>>

IterImagesCall ==
    /\ result' = [call |-> "iter_images", arg |-> <<>>, value |-> iter_images(records)]
    /\ last' = "iter_images"
    /\ UNCHANGED <<records, threshold, dialogVars, mergeVars, scanVars>>

NextStore == UpsertImageCall \/ DeleteImageCall \/ GetImageCall \/ IterImagesCall

SpecStore == InitStore /\ [][NextStore]_vars

(***************************************************************************)
(* SpecMerge: merge_image_metadata applied to every target and every list  *)
(* of at most MaxSources sources, with every fault.                        *)
(***************************************************************************)
MergeNotCalled == [meta |-> NoMeta, printed |-> FALSE, fault |-> "none"]

InitMerge ==
    /\ m_target \in MetaFiles({1})
    /\ m_sources \in UNION {[1..k -> MetaFiles(Values)] : k \in 0..MaxSources}
    /\ m_out = MergeNotCalled
    /\ last = "init"
    /\ DialogAtRest
    /\ GroupingAtRest
    /\ ScanAtRest

MergeCall ==
    /\ last = "init"
    /\ \E fault \in MergeFaults :
         LET r == merge_image_metadata(m_sources, m_target, fault)
         IN  m_out' = [meta |-> r.meta, printed |-> r.printed, fault |-> fault]
    /\ last' = "merge_call"
    /\ UNCHANGED <<m_target, m_sources, dialogVars, groupVars, scanVars>>

NextMerge == MergeCall

SpecMerge == InitMerge /\ [][NextMerge]_vars

(***************************************************************************)
(* SpecSelect: the dialog over one group, in both modes, with the stat     *)
(* values of the group's files (and whether they exist) drawn from bounded *)
(* sets and every set of persisted criteria; the handlers that run         *)
(* _run_auto_select or change the selection by hand.                       *)
(***************************************************************************)
Mtimes == {i * (OlderTolerance \div 2) : i \in 0..MaxMtimeSteps}
Sizes == {1, 2}

SelectGroups == {<<"/a/1.jpg", "/a/2.jpg", "/a/b/3.jpg">>,
                 <<"/a/1.jpg", "/a/2.jpg">>,
                 <<"/a/2.jpg", "/a/b/3.jpg">>}

StatFiles ==
    {[exists |-> TRUE, w |-> 1, h |-> 1, mtime |-> t, size |-> z,
      readable |-> TRUE, meta |-> NoMeta] : t \in Mtimes, z \in Sizes}

\* The files of group g in every state; the other paths have no file.
SelectDisks(g) ==
    {d \in [Paths -> StatFiles \cup {NoFile}] :
        \A p \in Paths \ Range(g) : d[p] = NoFile}

\* The rows of group g: one content hash.
SelectStore(g) ==
    {[path |-> g[i], sha256 |-> 1, score |-> IF i = 1 THEN 2 ELSE 1] : i \in 1..Len(g)}

InitSelect ==
    /\ \E g \in SelectGroups :
         /\ disk \in SelectDisks(g)
         /\ store = SelectStore(g)
         /\ dynamic_mode \in BOOLEAN
         /\ chk \in [Criteria -> BOOLEAN]
         /\ DialogConstructed(IF dynamic_mode THEN <<>> ELSE <<g>>)
    /\ GroupingAtRest
    /\ MergeAtRest
    /\ ScanAtRest

NextSelect ==
    \/ \E p \in Paths : OnItemSelected(p) /\ UNCHANGED <<groupVars, mergeVars, scanVars>>
    \/ \E x \in Criteria : OnCriteriaChanged(x) /\ UNCHANGED <<groupVars, mergeVars, scanVars>>

SpecSelect == InitSelect /\ [][NextSelect]_vars

(***************************************************************************)
(* scanner.scan_folders, run by ScanWorker.run in its own thread, and the  *)
(* window's pause_scanner / resume_scanner                                 *)
(*                                                                         *)
(* Files are counted, not named: the file being processed is number        *)
(* scanned of the nfiles that iter_image_files yields.                     *)
(***************************************************************************)
BatchSize == 100     \* "if indexed % 100 == 0: db.commit()"

\* "if running_event is not None: running_event.wait()": wait returns when
\* the event is set.
GateIgnored(ev) == TRUE
GateOpen(ev) == ev

\* "if indexed % 100 == 0"
CommitNever(n) == FALSE
CommitDue(n) == n % BatchSize = 0

\* What the body of the try block can do for one file: run through (ok), or
\* raise: in stat / Image.open / phash / sha256_file (unreadable), in
\* embed_file or analyze_file (enrich_raises), in db.upsert_image
\* (upsert_raises), in the db.commit of a full batch (commit_raises).
FileOutcomes(enr, n) ==
    {"ok", "unreadable", "upsert_raises"}
        \cup (IF enr THEN {"enrich_raises"} ELSE {})
        \cup (IF CommitDue(n + 1) THEN {"commit_raises"} ELSE {})

\* "except Exception: skipped += 1 ... continue"
AfterExceptionAborts == "failed"
AfterException == "next"

\* The counters and the connection after the loop body has run for one file
\* with outcome o; c holds them before.
process_file(o, c) ==
    IF o \in {"unreadable", "enrich_raises", "upsert_raises"}
    THEN [c EXCEPT !.skipped = c.skipped + 1, !.pc = AfterException]
    ELSE LET n == c.indexed + 1
             stored == [c EXCEPT !.upserts = c.upserts + 1,
                                 !.uncommitted = c.uncommitted + 1,
                                 !.indexed = n]
         IN  IF ~CommitDue(n) THEN [stored EXCEPT !.pc = "next"]
             ELSE IF o = "commit_raises"
             THEN [stored EXCEPT !.skipped = c.skipped + 1, !.pc = AfterException]
             ELSE [stored EXCEPT !.uncommitted = 0, !.pc = "next"]

\* "for path in iter_image_files(folders)": the next path, or the end of the loop.
ScanNextFile ==
    /\ scan_pc = "next"
    /\ scan_pc' = IF scanned < nfiles THEN "wait" ELSE "end"
    /\ last' = "scan"
    /\ UNCHANGED <<nfiles, enrich, running_event, scanned, indexed, skipped,
                   upserts, uncommitted, callbacks, paused_callbacks,
                   inflight_at_clear>>

\* The per-file checkpoint and "scanned += 1".
ScanPassGate ==
    /\ scan_pc = "wait"
    /\ GateOpen(running_event)
    /\ scanned' = scanned + 1
    /\ callbacks' = 0
    /\ scan_pc' = "file"
    /\ last' = "scan"
    /\ UNCHANGED <<nfiles, enrich, running_event, indexed, skipped, upserts,
                   uncommitted, paused_callbacks, inflight_at_clear>>

\* The try block for the file, with the progress callback of either branch.
ScanFile ==
    /\ scan_pc = "file"
    /\ \E o \in FileOutcomes(enrich, indexed) :
         LET r == process_file(o, [indexed |-> indexed, skipped |-> skipped,
                                   upserts |-> upserts, uncommitted |-> uncommitted,
                                   pc |-> scan_pc])
         IN  /\ indexed' = r.indexed
             /\ skipped' = r.skipped
             /\ upserts' = r.upserts
             /\ uncommitted' = r.uncommitted
             /\ scan_pc' = r.pc
             /\ last' = o
    /\ callbacks' = callbacks + 1
    /\ paused_callbacks' = IF running_event THEN 0 ELSE paused_callbacks + 1
    /\ UNCHANGED <<nfiles, enrich, running_event, scanned, inflight_at_clear>>

\* After the loop: "db.commit()" and the return; in ScanWorker.run an
\* exception of the commit ends in error.emit, the result in finished.emit.
ScanEnd ==
    /\ scan_pc = "end"
    /\ \E raises \in BOOLEAN :
         IF raises
         THEN scan_pc' = "failed" /\ last' = "scan_error" /\ UNCHANGED uncommitted
         ELSE scan_pc' = "done" /\ last' = "scan_finished" /\ uncommitted' = 0
    /\ UNCHANGED <<nfiles, enrich, running_event, scanned, indexed, skipped,
                   upserts, callbacks, paused_callbacks, inflight_at_clear>>

\* The steps of the worker thread.
ScanStep == ScanNextFile \/ ScanPassGate \/ ScanFile \/ ScanEnd

\* ScannerWindow.pause_scanner: "self._running_event.clear()"
PauseScanner ==
    /\ scan_pc \notin {"done", "failed"}
    /\ running_event' = FALSE
    /\ paused_callbacks' = IF running_event THEN 0 ELSE paused_callbacks
    /\ inflight_at_clear' = IF running_event THEN scan_pc = "file" ELSE inflight_at_clear
    /\ last' = "pause"
    /\ UNCHANGED <<nfiles, enrich, scan_pc, scanned, indexed, skipped, upserts,
                   uncommitted, callbacks>>

\* ScannerWindow.resume_scanner: "self._running_event.set()"
ResumeScanner ==
    /\ scan_pc \notin {"done", "failed"}
    /\ running_event' = TRUE
    /\ paused_callbacks' = 0
    /\ inflight_at_clear' = FALSE
    /\ last' = "resume"
    /\ UNCHANGED <<nfiles, enrich, scan_pc, scanned, indexed, skipped, upserts,
                   uncommitted, callbacks>>

(***************************************************************************)
(* SpecScan: one scan of 0, 1 or MaxFiles files, with or without           *)
(* enrichment, every outcome per file, and the window pausing and resuming *)
(* at any time.                                                            *)
(***************************************************************************)
FileCounts == {0, 1, MaxFiles}

\* ScanWorker.run has called scan_folders: "scanned = 0 indexed = 0 skipped = 0";
\* the window's event is set.
InitScan ==
    /\ nfiles \in FileCounts
    /\ enrich \in BOOLEAN
    /\ running_event = TRUE
    /\ scan_pc = "next"
    /\ scanned = 0 /\ indexed = 0 /\ skipped = 0 /\ upserts = 0 /\ uncommitted = 0
    /\ callbacks = 0 /\ paused_callbacks = 0 /\ inflight_at_clear = FALSE
    /\ label_windows = 0 /\ resolve_open = FALSE
    /\ last = "init"
    /\ DialogAtRest
    /\ GroupingAtRest
    /\ MergeAtRest

NextScan ==
    \/ ScanNextFile /\ UNCHANGED <<dialogVars, groupVars, mergeVars, windowVars>>
    \/ ScanPassGate /\ UNCHANGED <<dialogVars, groupVars, mergeVars, windowVars>>
    \/ ScanFile /\ UNCHANGED <<dialogVars, groupVars, mergeVars, windowVars>>
    \/ ScanEnd /\ UNCHANGED <<dialogVars, groupVars, mergeVars, windowVars>>
    \/ PauseScanner /\ UNCHANGED <<dialogVars, groupVars, mergeVars, windowVars>>
    \/ ResumeScanner /\ UNCHANGED <<dialogVars, groupVars, mergeVars, windowVars>>

SpecScan == InitScan /\ [][NextScan]_vars

(***************************************************************************)
(* SpecWindows: a scan, with the Label Images windows and the Resolve      *)
(* dialog that pause and resume it being opened and closed.  The dialog is *)
(* modal (dlg.exec()): while it is open no other window is opened or       *)
(* closed.                                                                 *)
(***************************************************************************)
\* MainWindow._open_label_images: pause_scanner, then the window is shown.
OpenLabelImages ==
    /\ ~resolve_open
    /\ label_windows < MaxLabelWindows
    /\ PauseScanner
    /\ label_windows' = label_windows + 1
    /\ UNCHANGED resolve_open

\* A Label Images window is closed: its destroyed signal calls resume_scanner.
CloseLabelImages ==
    /\ ~resolve_open
    /\ label_windows > 0
    /\ ResumeScanner
    /\ label_windows' = label_windows - 1
    /\ UNCHANGED resolve_open

\* ScannerWindow._on_resolve_all up to dlg.exec()
OpenResolveAll ==
    /\ ~resolve_open
    /\ PauseScanner
    /\ resolve_open' = TRUE
    /\ UNCHANGED label_windows

\* dlg.exec() returns: "finally: self.resume_scanner()"
CloseResolveAll ==
    /\ resolve_open
    /\ ResumeScanner
    /\ resolve_open' = FALSE
    /\ UNCHANGED label_windows

InitWindows == InitScan

NextWindows ==
    \/ ScanStep /\ UNCHANGED <<dialogVars, groupVars, mergeVars, windowVars>>
    \/ OpenLabelImages /\ UNCHANGED <<dialogVars, groupVars, mergeVars>>
    \/ CloseLabelImages /\ UNCHANGED <<dialogVars, groupVars, mergeVars>>
    \/ OpenResolveAll /\ UNCHANGED <<dialogVars, groupVars, mergeVars>>
    \/ CloseResolveAll /\ UNCHANGED <<dialogVars, groupVars, mergeVars>>

SpecWindows == InitWindows /\ [][NextWindows]_vars

(***************************************************************************)
(* Properties of group_duplicates_by_sha256 (SpecSha)                      *)
(***************************************************************************)
\* The records whose content hash another record of the list has too.
SharedShaRecords ==
    {records[i] : i \in {i \in 1..Len(records) :
        \E j \in 1..Len(records) : j # i /\ records[j].sha256 = records[i].sha256}}

\* C3: group_duplicates_by_sha256 returns only groups of two or more records,
\* the records of a group have one content hash, and the groups together hold
\* exactly the records whose content hash is shared by at least two records
\* of the input, each of them once.
C3_ShaGroupsExact ==
    last = "group_sha" =>
        /\ \A i \in 1..Len(result) :
             /\ Len(result[i]) >= 2
             /\ \A a, b \in 1..Len(result[i]) : result[i][a].sha256 = result[i][b].sha256
        /\ UNION {Range(result[i]) : i \in 1..Len(result)} = SharedShaRecords
        /\ \A i, j \in 1..Len(result) :
             \A a \in 1..Len(result[i]), b \in 1..Len(result[j]) :
                result[i][a] = result[j][b] => (i = j /\ a = b)

\* A list of four records, three of one content hash and one alone, grouped.
C3_Witness ==
    /\ last = "group_sha"
    /\ Len(records) = 4
    /\ Len(result) = 1
    /\ Len(result[1]) = 3
    /\ \E i \in 1..Len(records) : records[i] \notin Range(result[1])

(***************************************************************************)
(* Properties of merge_image_metadata (SpecMerge)                          *)
(***************************************************************************)
\* The sources, in list order, from which key k is read.
Carriers(k) ==
    {i \in 1..Len(m_sources) : m_sources[i].readable /\ m_sources[i].meta[k] # Absent}

DeleteRequested ==
    pc = "idle" /\ selected_path # None /\ last' \in {"blocked", "declined", "run"}

\* A path of the group other than the selected one has the larger pixel area.
LargerCandidate ==
    \E p \in Range(CurrentPaths) \ {selected_path} :
        PixArea(disk, p) > PixArea(disk, selected_path)

\* The files that the step removes from disk.
RemovedFiles == {p \in Paths : disk[p].exists /\ ~disk'[p].exists}

\* C1: a delete request is blocked exactly when some path of the group other
\* than the kept one has a strictly larger pixel area than the kept file
\* (equal areas do not block), and no step ever removes a file whose pixel
\* area is larger than that of the file being kept.
C1_BlockedIffLargerCandidate ==
    [][/\ DeleteRequested => ((last' = "blocked") <=> LargerCandidate)
       /\ \A p \in RemovedFiles : PixArea(disk, p) <= PixArea(disk, sel_keep)]_vars

\* A request was blocked: a candidate is larger than the kept file.
C1_Witness ==
    /\ last = "blocked"
    /\ \E p \in Range(to_delete) : PixArea(disk, p) > PixArea(disk, sel_keep)

\* C2: a blocked delete request ends there: no file is removed or modified
\* (so no metadata is merged), no record is deleted or marked for deletion,
\* and the group list, the group on display and the selection are unchanged.
C2_BlockedHasNoEffect ==
    [][(pc = "idle" /\ last' = "blocked") =>
          /\ pc' = "idle"
          /\ UNCHANGED <<disk, store, txn, groups, current_index,
                         current_group_cache, selected_path, btn_delete,
                         btn_ignore>>]_vars

\* A request was blocked although another candidate is no larger than the
\* kept file and carries a metadata key the kept file lacks.
C2_Witness ==
    /\ last = "blocked"
    /\ pc = "idle"
    /\ \E p \in Range(to_delete) :
         /\ disk[p].exists
         /\ PixArea(disk, p) <= PixArea(disk, sel_keep)
         /\ \E k \in MetaKeys : disk[p].meta[k] # Absent /\ disk[sel_keep].meta[k] = Absent
    /\ \A p \in Range(to_delete) : p \in StorePaths(store)

\* The candidates whose file is there but whose metadata pyexiv2 cannot read.
UnreadCandidates ==
    {p \in Range(to_delete) : disk[p].exists /\ ~MetaOf(disk, p).readable}

\* C8 (as stated): every file removal of a delete request comes after the
\* merge call of that request, and a merge that does not take place, for the
\* whole call or for one candidate, leaves the failure message.
C8_MergeFirstAndFailureWarned ==
    [][/\ RemovedFiles # {} => merge_state = "done"
       /\ (pc = "merge" /\ last' = "merge"
             /\ (merge_fault' = "import" \/ ~MetaOf(disk, sel_keep).readable
                   \/ UnreadCandidates # {}))
          => merge_printed']_vars

C10_IgnoreDeletesRecordsOnly ==
    [][(pc = "idle" /\ last' = "ignore_done") =>
          /\ disk' = disk
          /\ store' = {r \in store : r.path \notin Range(CurrentPaths)}
          /\ LET grouped == group_duplicates_by_sha256(IterImages(store'))
             IN  \A p \in Range(CurrentPaths) :
                    /\ \A i \in 1..Len(grouped) : p \notin Range(PathsOf(grouped[i]))
                    /\ \A off \in 0..Cardinality(store) :
                          \A got \in get_duplicate_groups_sha256(store', off) :
                             got = <<>> \/ p \notin Range(PathsOf(got[1]))]_vars

\* A group was ignored: a file is on disk whose record is no longer stored,
\* and another duplicate group is still in the store.
C10_Witness ==
    /\ last = "ignore_done"
    /\ \E p \in Paths : disk[p].exists /\ p \notin StorePaths(store)
    /\ group_duplicates_by_sha256(IterImages(store)) # <<>>

(***************************************************************************)
(* Properties of _run_auto_select (SpecSelect)                             *)
(***************************************************************************)
\* _run_auto_select was the last thing to set the selection: at the end of
\* _load_group, or from _on_criteria_changed.
AutoSelectRan == last \in {"init", "criteria"}

\* The winning subset of criterion x among the files that could be stat'ed.
Winners(x, cands) ==
    CASE x = "older"  -> OlderWinners(cands, disk)
      [] x = "larger" -> LargerWinners(cands, disk)
      [] x = "deeper" -> DeeperWinners(cands, disk)

\* One point per enabled criterion whose winning subset contains p.
Points(p, cands) == Cardinality({x \in Criteria : chk[x] /\ p \in Winners(x, cands)})

\* The files whose total is positive and above every other file's.
StrictBest(cands) ==
    {p \in cands : Points(p, cands) > 0
                     /\ \A q \in cands \ {p} : Points(q, cands) < Points(p, cands)}

C5_NoCriteriaSelectsNone ==
    (AutoSelectRan /\ ActiveCriteria(chk) = 0) =>
        (selected_path = None /\ ~btn_delete)

\* r can be stat'ed and is older, larger and deeper than every other file of
\* group g that can be.
Dominant(r, g) ==
    /\ disk[r].exists
    /\ \A q \in Range(g) \ {r} :
          disk[q].exists =>
             /\ disk[r].mtime < disk[q].mtime
             /\ disk[r].size > disk[q].size
             /\ Depth(r) > Depth(q)

\* C6: with all three criteria enabled, a file that is strictly older,
\* strictly larger and strictly deeper than every other file of the group is
\* the one auto-select selects, also when another file's modification time is
\* within the tolerance of its own.
C6_DominantSelected ==
    (AutoSelectRan /\ \A x \in Criteria : chk[x]) =>
        \A r \in Range(CurrentPaths) :
            Dominant(r, CurrentPaths) => (selected_path = r /\ btn_delete)

\* A toggle enabled the third criterion over a group of three files, all
\* there: one of them is dominant and selected, and another one is less than
\* the tolerance younger.
C6_Witness ==
    /\ last = "criteria"
    /\ \A x \in Criteria : chk[x]
    /\ Len(CurrentPaths) = 3
    /\ \A q \in Range(CurrentPaths) : disk[q].exists
    /\ selected_path # None
    /\ Dominant(selected_path, CurrentPaths)
    /\ \E q \in Range(CurrentPaths) \ {selected_path} :
          disk[q].mtime - disk[selected_path].mtime < OlderTolerance

(***************************************************************************)
(* Properties of scan_folders (SpecScan)                                   *)
(***************************************************************************)
\* C11 (as stated): while the gate is cleared the worker starts no file and
\* emits no progress callback.
C11_PausedEmitsNothing ==
    ~running_event => paused_callbacks = 0

\* C11: a file is started only while the gate is set, and it is the next one
\* (the count of started files goes up by one and never beyond the files
\* there are, so no file is processed or reported twice); while the gate is
\* cleared the only progress callback is the one of the file that was being
\* processed when it was cleared.
C11_PauseHaltsNewFiles ==
    /\ [](~running_event =>
             paused_callbacks <= (IF inflight_at_clear THEN 1 ELSE 0))
    /\ [](callbacks <= 1 /\ scanned <= nfiles)
    /\ [][/\ scanned' # scanned => (running_event /\ scanned' = scanned + 1)
          /\ callbacks' # callbacks =>
                (callbacks' = 0 \/ (scan_pc = "file" /\ scan_pc' # "file"))]_vars

\* The gate was cleared while a file was being processed: its callback has
\* come, and the worker waits before the next file.
C11_Witness ==
    /\ ~running_event
    /\ inflight_at_clear
    /\ paused_callbacks = 1
    /\ scan_pc = "wait"
    /\ scanned >= 1 /\ scanned < nfiles

\* C12 (as stated): once the caller has flipped the flag that the per-file
\* checkpoint reads, a worker that goes no further has terminated.
C12_FlagEndsScan ==
    (~running_event /\ ~ENABLED ScanStep) => scan_pc \in {"done", "failed"}

\* How many commit exceptions the loop has swallowed: each adds one to skipped
\* for a file that indexed counts too.
SwallowedCommits ==
    indexed + skipped - (scanned - (IF scan_pc = "file" THEN 1 ELSE 0))

\* C13: a file that cannot be read or decoded adds one to skipped, writes no
\* record and lets the loop go on with the next file; a scan that returns has
\* gone through all files, and its counts cover each of them.
C13_UnreadableIsSkipped ==
    /\ [][(scan_pc = "file" /\ last' = "unreadable") =>
             /\ skipped' = skipped + 1
             /\ indexed' = indexed /\ upserts' = upserts /\ uncommitted' = uncommitted
             /\ scanned' = scanned
             /\ scan_pc' = "next"]_vars
    /\ [](scan_pc = "done" =>
             /\ scanned = nfiles
             /\ scanned <= indexed + skipped
             /\ indexed + skipped <= scanned + indexed \div BatchSize)

\* An unreadable file has just been skipped, after a file that was indexed
\* and with files still to come.
C13_Witness ==
    /\ last = "unreadable"
    /\ scan_pc = "next"
    /\ skipped >= 1 /\ indexed >= 1
    /\ scanned < nfiles

\* C14 (as stated): an exception of the store's upsert or commit during the
\* loop ends the scan, and the file is not counted as skipped.
C14_StoreFailureAborts ==
    [][(scan_pc = "file" /\ last' \in {"upsert_raises", "commit_raises"}) =>
          (scan_pc' = "failed" /\ skipped' = skipped)]_vars

\* C15 (as stated): when the embedding or detection step raises for a file,
\* its record is upserted all the same and it counts as indexed, not skipped.
C15_EnrichmentFailureKeepsRecord ==
    [][(scan_pc = "file" /\ last' = "enrich_raises") =>
          /\ upserts' = upserts + 1
          /\ indexed' = indexed + 1
          /\ skipped' = skipped]_vars

PhashDist(i, j) == hamming_distance_hex_phash(records[i].phash, records[j].phash)

RecordsAt(idx) == {records[i] : i \in idx}

\* C17: the records are taken as seeds from the end of the list; a cluster is
\* its seed plus every record that no earlier seed has taken and that is
\* within the threshold of the seed.  The groups returned are those clusters
\* with two members or more: each member is within the threshold of the seed
\* (not necessarily of the other members), and each record is in one cluster
\* at most.
C17_PhashClustersAroundSeed ==
    last = "group_phash" =>
        LET n == Len(records)
            Seeded[i \in 1..n] ==
                \A k \in (i + 1)..n : Seeded[k] => PhashDist(k, i) > threshold
            Free(j, i) ==
                \A k \in (i + 1)..n : Seeded[k] => PhashDist(k, j) > threshold
            Cluster(i) ==
                {i} \cup {j \in 1..(i - 1) : Free(j, i) /\ PhashDist(i, j) <= threshold}
        IN  /\ \A g \in 1..Len(result) :
                   /\ Len(result[g]) >= 2
                   /\ Cardinality(Range(result[g])) = Len(result[g])
                   /\ \E i \in 1..n :
                          /\ Seeded[i]
                          /\ Range(result[g]) = RecordsAt(Cluster(i))
                          /\ \A m \in 1..Len(result[g]) :
                                 hamming_distance_hex_phash(records[i].phash,
                                                            result[g][m].phash) <= threshold
            /\ \A i \in 1..n :
                   (Seeded[i] /\ Cardinality(Cluster(i)) >= 2) =>
                       Cardinality({g \in 1..Len(result) :
                                       Range(result[g]) = RecordsAt(Cluster(i))}) = 1
            /\ \A g, h \in 1..Len(result) :
                   g # h => Range(result[g]) \cap Range(result[h]) = {}

\* A group has two members that are farther from each other than the
\* threshold, and a record within the threshold of a member of the group has
\* stayed outside of it.
C17_Witness ==
    /\ last = "group_phash"
    /\ \E g \in 1..Len(result) :
           /\ \E a, b \in 1..Len(result[g]) :
                  hamming_distance_hex_phash(result[g][a].phash, result[g][b].phash) > threshold
           /\ \E i \in 1..Len(records) :
                  /\ \A h \in 1..Len(result) : records[i] \notin Range(result[h])
                  /\ \E a \in 1..Len(result[g]) :
                         hamming_distance_hex_phash(records[i].phash, result[g][a].phash) <= threshold

(***************************************************************************)
(* Properties of group_duplicates_by_embedding (SpecEmbed)                 *)
(***************************************************************************)
\* C18: only records with an embedding are clustered.  Among those, in list
\* order, a record that no earlier cluster has taken opens a cluster, which
\* takes exactly the later records not yet taken whose similarity to it
\* is at least the threshold.  The groups returned are the clusters with two
\* members or more, and no record is in two of them.
C18_EmbeddingGreedyClusters ==
    last = "group_embedding" =>
        LET valid == SelectSeq(records, LAMBDA r : r.embedding # NoEmbedding)
            n == Len(valid)
            Sim(i, j) == Dot(valid[i].embedding, valid[j].embedding) >= threshold
            Visited[j \in 1..n] ==
                \E k \in 1..(j - 1) : ~Visited[k] /\ Sim(k, j)
            TakenBefore(j, i) ==
                \E k \in 1..(i - 1) : ~Visited[k] /\ Sim(k, j)
            Cluster(i) ==
                {i} \cup {j \in (i + 1)..n : ~TakenBefore(j, i) /\ Sim(i, j)}
            At(idx) == {valid[i] : i \in idx}
        IN  /\ \A g \in 1..Len(result) :
                   /\ Len(result[g]) >= 2
                   /\ Cardinality(Range(result[g])) = Len(result[g])
                   /\ \A m \in 1..Len(result[g]) : result[g][m].embedding # NoEmbedding
                   /\ \E i \in 1..n : ~Visited[i] /\ Range(result[g]) = At(Cluster(i))
            /\ \A i \in 1..n :
                   (~Visited[i] /\ Cardinality(Cluster(i)) >= 2) =>
                       Cardinality({g \in 1..Len(result) :
                                       Range(result[g]) = At(Cluster(i))}) = 1
            /\ \A g, h \in 1..Len(result) :
                   g # h => Range(result[g]) \cap Range(result[h]) = {}

\* The list holds a record without embedding; a group has been formed, at a
\* similarity equal to the threshold, and a record as similar to one of its
\* members has stayed outside of every group.
C18_Witness ==
    /\ last = "group_embedding"
    /\ \E i \in 1..Len(records) : records[i].embedding = NoEmbedding
    /\ \E g \in 1..Len(result) :
           /\ \E a, b \in 1..Len(result[g]) :
                  Dot(result[g][a].embedding, result[g][b].embedding) = threshold
           /\ \E i \in 1..Len(records) :
                  /\ records[i].embedding # NoEmbedding
                  /\ \A h \in 1..Len(result) : records[i] \notin Range(result[h])
                  /\ \E a \in 1..Len(result[g]) :
                         Dot(records[i].embedding, result[g][a].embedding) >= threshold

(***************************************************************************)
(* Order of the results of the grouping functions                          *)
(***************************************************************************)
\* C19 (as stated): inside every group returned, the scores descend, and of
\* two neighbours with the same score the one with the smaller path comes
\* first.
C19_GroupsByScoreThenPath ==
    \A g \in 1..Len(result) :
        \A k \in 1..(Len(result[g]) - 1) :
            \/ result[g][k].score > result[g][k + 1].score
            \/ /\ result[g][k].score = result[g][k + 1].score
               /\ PathRank(result[g][k].path) < PathRank(result[g][k + 1].path)

\* C20 (as stated): the groups come by descending size, then by ascending
\* hash, and the list returned is the same for every order in which the same
\* records are handed in.
C20_SameOutputForEveryOrder ==
    last = "group_sha" =>
        /\ \A g \in 1..(Len(result) - 1) :
               \/ Len(result[g]) > Len(result[g + 1])
               \/ /\ Len(result[g]) = Len(result[g + 1])
                  /\ result[g][1].sha256 < result[g + 1][1].sha256
        /\ LET n == Len(records)
               Perms == {f \in [1..n -> 1..n] : \A i, j \in 1..n : i # j => f[i] # f[j]}
           IN  \A f \in Perms :
                   group_duplicates_by_sha256([i \in 1..n |-> records[f[i]]]) = result

(***************************************************************************)
(* Order of the clusters (SpecCluster)                                     *)
(***************************************************************************)
BestScore(g) == CHOOSE x \in {g[k].score : k \in 1..Len(g)} :
                    \A k \in 1..Len(g) : g[k].score <= x

\* C21: in the list returned by the perceptual and by the embedding grouping
\* a cluster is never smaller than the one after it, and of two neighbours
\* of the same size the first has the higher or the same best score.
C21_ClustersBySizeThenBest ==
    last \in {"group_phash", "group_embedding"} =>
        \A g \in 1..(Len(result) - 1) :
            \/ Len(result[g]) > Len(result[g + 1])
            \/ /\ Len(result[g]) = Len(result[g + 1])
               /\ BestScore(result[g]) >= BestScore(result[g + 1])

\* Two clusters of the same size whose best scores differ have been returned.
C21_Witness ==
    /\ last \in {"group_phash", "group_embedding"}
    /\ \E g \in 1..(Len(result) - 1) :
           /\ Len(result[g]) = Len(result[g + 1])
           /\ BestScore(result[g]) > BestScore(result[g + 1])

(***************************************************************************)
(* Properties of hamming_distance_hex_phash (SpecHamming)                  *)
(***************************************************************************)
BitOf(x, k) == (x \div 2^k) % 2

\* C22: the distance is the number of bit positions in which the values of
\* the two hex strings differ; it is the same with the arguments swapped, 0
\* for equal arguments, and 0 only for strings of the same value.
C22_HammingIsXorPopcount ==
    last = "distance" =>
        LET a == records[1]
            b == records[2]
            x == HexToInt(a)
            y == HexToInt(b)
        IN  /\ result[1] = Cardinality({k \in 0..(4 * MaxHexLen - 1) : BitOf(x, k) # BitOf(y, k)})
            /\ result[1] = hamming_distance_hex_phash(b, a)
            /\ a = b => result[1] = 0
            /\ result[1] = 0 => x = y

\* The distance of two strings that differ in more than the last digit.
C22_Witness ==
    /\ last = "distance"
    /\ Len(records[1]) = 2 /\ Len(records[2]) = 2
    /\ records[1][1] # records[2][1]
    /\ records[1][2] = records[2][2]
    /\ result[1] > 0

(***************************************************************************)
(* Threshold 0 against content hashes (SpecBoth)                           *)
(***************************************************************************)
\* Two records have the same perceptual hash exactly when they have the same
\* content hash.
PhashInjectiveOverContent ==
    \A i, j \in 1..Len(records) :
        (records[i].phash = records[j].phash) <=> (records[i].sha256 = records[j].sha256)

Partition(gs) == {Range(gs[g]) : g \in 1..Len(gs)}

\* C23: for records whose perceptual hashes agree exactly when their content
\* hashes do, perceptual grouping with threshold 0 returns the same groups,
\* as sets of records, as content-hash grouping, each once.
C23_ThresholdZeroIsShaPartition ==
    (last = "group_both" /\ PhashInjectiveOverContent) =>
        /\ Partition(result[2]) = Partition(result[1])
        /\ Len(result[2]) = Len(result[1])
        /\ Cardinality(Partition(result[1])) = Len(result[1])

\* Such records with two groups, which the two functions return in
\* different orders.
C23_Witness ==
    /\ last = "group_both"
    /\ PhashInjectiveOverContent
    /\ Len(result[1]) = 2
    /\ result[2] # result[1]
    /\ Partition(result[2]) = Partition(result[1])

(***************************************************************************)
(* Properties of the images table (SpecStore)                              *)
(***************************************************************************)
\* C24: the table never holds two rows of one path.  After upsert_image(r)
\* get_image(r.path) returns r, with every field as upserted, and the rows of
\* the other paths are as before; delete_image(p) leaves no row of p and the
\* rows of the other paths as before; get_image returns the row of the path,
\* or None; iter_images returns every row once, the paths ascending.
C24_OneRecordPerPath ==
    /\ [](\A i, j \in 1..Len(records) : i # j => records[i].path # records[j].path)
    /\ [](last = "get_image" =>
              \/ result.value = <<>> /\ \A i \in 1..Len(records) : records[i].path # result.arg[1]
              \/ /\ Len(result.value) = 1
                 /\ result.value[1] \in Range(records)
                 /\ result.value[1].path = result.arg[1])
    /\ [](last = "iter_images" =>
              /\ Len(result.value) = Len(records)
              /\ Range(result.value) = Range(records)
              /\ \A k \in 1..(Len(result.value) - 1) :
                     PathRank(result.value[k].path) < PathRank(result.value[k + 1].path))
    /\ [][last' = "upsert_image" =>
              /\ get_image(records', result'.arg[1].path) = result'.arg
              /\ \A p \in TablePaths \ {result'.arg[1].path} :
                     get_image(records', p) = get_image(records, p)]_vars
    /\ [][last' = "delete_image" =>
              /\ get_image(records', result'.arg[1]) = <<>>
              /\ \A p \in TablePaths \ {result'.arg[1]} :
                     get_image(records', p) = get_image(records, p)]_vars

\* A path has been upserted again with other fields, next to a row of a
\* larger path that was inserted before it, and iter_images has been called.
C24_Witness ==
    /\ last = "iter_images"
    /\ Len(records) >= 2
    /\ PathRank(records[1].path) > PathRank(records[2].path)
    /\ records[2].sha256 = 2 /\ records[2].score = 2
    /\ result.value # records

(***************************************************************************)
(* PreferOlder at the tolerance (SpecSelect)                               *)
(***************************************************************************)
\* The files whose modification time is at most one second above the minimum
\* of the files that can be stat'ed.
WithinOneSecondOfOldest(cands) ==
    {p \in cands :
        disk[p].mtime - SetMin({disk[q].mtime : q \in cands}) <= OlderTolerance}

\* C25 (as stated): when a toggle has left Prefer Older as the only
\* criterion, the files that get the point are those at most one second above
\* the minimum: auto-select selects the file that is alone in having it, and
\* none when several have it.
C25_OlderPointUpToOneSecond ==
    (last = "criteria" /\ chk = [x \in Criteria |-> x = "older"]
        /\ StatCandidates(CurrentPaths, disk) # {}) =>
        LET w == WithinOneSecondOfOldest(StatCandidates(CurrentPaths, disk))
        IN  IF Cardinality(w) = 1
            THEN selected_path \in w /\ btn_delete
            ELSE selected_path = None /\ ~btn_delete

(***************************************************************************)
(* The progress callback of scan_folders (SpecScan)                        *)
(***************************************************************************)
\* C26 (as stated): when the callback of a file has been made, it has been
\* made once for that file and the counts it carries add up, scanned being
\* indexed plus skipped; so do the counts of the result returned.
C26_CountsAddUpAtCallback ==
    /\ (scan_pc = "next" /\ scanned > 0) =>
           (callbacks = 1 /\ scanned = indexed + skipped)
    /\ scan_pc = "done" => scanned = indexed + skipped

(***************************************************************************)
(* Pausing by several windows (SpecWindows)                                *)
(***************************************************************************)
\* C27 (as stated): while a Label Images window or the Resolve dialog is
\* open, the worker starts no new file.
C27_PausedWhileAnyWindowOpen ==
    [][(label_windows > 0 \/ resolve_open) => scanned' = scanned]_vars

ClustersWith(rec) ==
    {c \in 1..Len(result.clusters) : rec \in Range(result.clusters[c])}

\* Once the function has returned: the value is that of
\* group_duplicates_by_phash computed in one go, every record is in one group
\* at most and in exactly one cluster, and a record that is in no group was
\* alone in its cluster.
ReturnedPartition ==
    result.returned =>
        /\ result.value = group_duplicates_by_phash(records, threshold)
        /\ \A i \in 1..Len(records) :
               LET inGroups == {g \in 1..Len(result.value) :
                                   records[i] \in Range(result.value[g])}
               IN  /\ Cardinality(inGroups) <= 1
                   /\ Cardinality(ClustersWith(records[i])) = 1
                   /\ inGroups = {} =>
                          \A c \in ClustersWith(records[i]) :
                              result.clusters[c] = <<records[i]>>

\* C29: every pass makes remaining shorter, and a call returns.  When it has,
\* every record is in one group at most; a record that is in no group was the
\* seed of a pass whose cluster had no other member.
C29_PhashTerminates ==
    /\ []ReturnedPartition
    /\ [][last' = "pass" => Len(result'.remaining) < Len(result.remaining)]_vars
    /\ result.called ~> result.returned

\* The function has returned after several passes, with a group and with a
\* record that is in none.
C29_Witness ==
    /\ result.returned
    /\ Len(result.clusters) >= 2
    /\ Len(result.value) >= 1
    /\ \E i \in 1..Len(records) :
           \A g \in 1..Len(result.value) : records[i] \notin Range(result.value[g])

\* The number of duplicate groups the dialog pages through: the list it was
\* given, or in dynamic mode the groups of the store.
NumGroups == IF dynamic_mode THEN Len(DuplicateShas(store)) ELSE Len(groups)

\* C30: navigation reaches every group, in static and in dynamic mode: Next
\* moves to the following group whenever there is one, Previous moves back
\* whenever the index is above 0, and after a group was deleted or ignored the
\* index is that of an existing group unless no group is left.
C30_NavigationReachesEveryGroup ==
    [][/\ (last' = "next" /\ current_index + 1 < NumGroups) =>
              current_index' = current_index + 1
       /\ (last' = "prev" /\ current_index > 0) =>
              current_index' = current_index - 1
       /\ ((last' = "delete_done" /\ deleted_count > 0) \/ last' = "ignore_done") =>
              (NumGroups' = 0 \/ (0 <= current_index' /\ current_index' < NumGroups'))
      ]_vars

====
